---- MODULE Spec2Model ----
(***************************************************************************)
(* A model of src/index.ts: the hand-written iterator range, the generator *)
(* xrange, the fibonacci generator with its reset signal, the lazy         *)
(* candidate sequence of ip(), the consumers of the iteration protocol     *)
(* (the useRange loop, for-of and spread over `iterable`) and the retry    *)
(* loop retryIndefinitely.                                                 *)
(*                                                                         *)
(* Each group of variables belongs to one specification; a specification   *)
(* leaves the variables of the other groups at their initial values.       *)
(***************************************************************************)
EXTENDS Integers, Sequences, FiniteSets

VARIABLES
    \* range(start, end, step) and xrange(start, end, step), same arguments
    start, end, step,
    rPc, rIndex, rHist,
    xPc, xIndex, xHist,
    \* fibonacci()
    fPc, current, next, fHist,
    \* ip(request, reply) and its generator ipCandidates
    apiGatewayHeader, cloudflareHeader, requestIp,
    apiParsed, cfParsed,
    ipPc, gPc, candidate, produced, apiCalls, cfCalls, logged, ipResult,
    \* the consumers: useRange, for-of over `iterable`, spread of `iterable`
    iStart, iEnd, iStep,
    heap,
    uPc, uIt, uResult, uOut, uCalls,
    fPos, fIt, fOut, fFinal, fCalls,
    sPc, sIt, numbers, sFinal, sCalls, sMore,
    \* retryIndefinitely(longRunningOperation)
    tPc, tGen, tIndex, nthTry, tries, pending, settled, tReason, tLog

rangeVars == <<start, end, step, rPc, rIndex, rHist, xPc, xIndex, xHist>>
fibVars == <<fPc, current, next, fHist>>
ipInputs == <<apiGatewayHeader, cloudflareHeader, requestIp, apiParsed, cfParsed>>
ipVars == <<ipInputs, ipPc, gPc, candidate, produced, apiCalls, cfCalls,
            logged, ipResult>>
iterArgs == <<iStart, iEnd, iStep>>
useVars == <<uPc, uIt, uResult, uOut, uCalls>>
forOfVars == <<fPos, fIt, fOut, fFinal, fCalls>>
spreadVars == <<sPc, sIt, numbers, sFinal, sCalls, sMore>>
iterVars == <<iterArgs, heap, useVars, forOfVars, spreadVars>>
retryVars == <<tPc, tGen, tIndex, nthTry, tries, pending, settled, tReason, tLog>>
vars == <<rangeVars, fibVars, ipVars, iterVars, retryVars>>

notRangeVars == <<fibVars, ipVars, iterVars, retryVars>>
notFibVars == <<rangeVars, ipVars, iterVars, retryVars>>
notIpVars == <<rangeVars, fibVars, iterVars, retryVars>>
notIterVars == <<rangeVars, fibVars, ipVars, retryVars>>
notRetryVars == <<rangeVars, fibVars, ipVars, iterVars>>

----------------------------------------------------------------------------
(* Bounds of the model.                                                    *)

MaxStart == 2
MaxEnd == 5
MaxStep == 3
MaxResumes == 9
MaxFibResumes == 11
MaxIterStart == 1
MaxIterStep == 2
MaxIterResumes == 12
MaxTries == 15

----------------------------------------------------------------------------
(* JavaScript values.                                                      *)

\* The value `undefined` (the value of a finished generator's result, an
\* absent argument).
Undefined == "undefined"

\* A number that may be Infinity: only `end` ever is (start and step are
\* integers, so the index stays an integer).
Num(n) == [inf |-> FALSE, n |-> n]
Infinity == [inf |-> TRUE, n |-> 0]

\* Variant: the comparison as it is when the default end = Infinity is
\* lost and end is undefined (index < undefined is false).
LtNoInfinity(i, e) == ~e.inf /\ i < e.n

\* index < end, on numbers: every integer is less than Infinity.
Lt(i, e) == e.inf \/ i < e.n

\* if (reset): the truthiness of a resume signal.  A signal is undefined
\* (no argument), a boolean or the number 0, named by a string.
Truthy(v) == v \notin {Undefined, "false", "zero"}

\* if (candidate): the truthiness of a string or undefined.
TruthyString(c) == c \notin {Undefined, ""}

\* An iterator result { value, done }.
Result(v, d) == [value |-> v, done |-> d]

----------------------------------------------------------------------------
(* range: the iterator of lines 6-19.  Its cursor is the closure variable  *)
(* index.                                                                  *)

Starts == (0 - MaxStart)..MaxStart
Ends == {Num(n) : n \in (0 - 1)..MaxEnd} \cup {Infinity}
Steps == (0 - 1)..MaxStep

\* Variant: the bound test of line 11 written inclusively.
RangeNextStepInclusive(index, e, st) ==
    IF e.inf \/ index <= e.n
    THEN [result |-> Result(index, FALSE), index |-> index + st]
    ELSE [result |-> Result(index, TRUE), index |-> index]

\* Variant: a zero step treated as an exhausted sequence.
RangeNextStepGuarded(index, e, st) ==
    IF st # 0 /\ Lt(index, e)
    THEN [result |-> Result(index, FALSE), index |-> index + st]
    ELSE [result |-> Result(index, TRUE), index |-> index]

\* Variant: a next() that advances the index on the exhausted path too.
RangeNextStepAdvancing(index, e, st) ==
    IF Lt(index, e)
    THEN [result |-> Result(index, FALSE), index |-> index + st]
    ELSE [result |-> Result(index, TRUE), index |-> index + st]

\* One call of next(): the result and the index it leaves.
RangeNextStep(index, e, st) ==
    IF Lt(index, e)
    THEN [result |-> Result(index, FALSE), index |-> index + st]
    ELSE [result |-> Result(index, TRUE), index |-> index]

\* range(start, end, step): binds index and returns the iterator object.
RangeCall ==
    /\ rPc = "call"
    /\ rPc' = "iterator"
    /\ rIndex' = start
    /\ UNCHANGED <<start, end, step, rHist, xPc, xIndex, xHist>>
    /\ UNCHANGED notRangeVars

RangeNext ==
    /\ rPc = "iterator"
    /\ Len(rHist) < MaxResumes
    /\ LET s == RangeNextStep(rIndex, end, step) IN
        /\ rIndex' = s.index
        /\ rHist' = Append(rHist, s.result)
    /\ UNCHANGED <<start, end, step, rPc, xPc, xIndex, xHist>>
    /\ UNCHANGED notRangeVars

----------------------------------------------------------------------------
(* xrange: the generator of lines 61-65.  xPc is the position of the       *)
(* generator: "call" (not yet called), "start" (created, body not begun),  *)
(* "yield" (suspended at line 63), "done" (the loop has ended).            *)

\* Variant: a finished generator that runs its loop again from start.
XrangeResumeRestart(pc, index, s, e, st) ==
    LET i == IF pc \in {"start", "done"} THEN s ELSE index + st IN
    IF Lt(i, e)
    THEN [pc |-> "yield", index |-> i, result |-> Result(i, FALSE)]
    ELSE [pc |-> "done", index |-> i, result |-> Result(Undefined, TRUE)]

\* Variant: a loop that advances before its first test.
XrangeResumeSkipFirst(pc, index, s, e, st) ==
    IF pc = "done"
    THEN [pc |-> "done", index |-> index, result |-> Result(Undefined, TRUE)]
    ELSE LET i == IF pc = "start" THEN s + st ELSE index + st IN
         IF Lt(i, e)
         THEN [pc |-> "yield", index |-> i, result |-> Result(i, FALSE)]
         ELSE [pc |-> "done", index |-> i, result |-> Result(Undefined, TRUE)]

\* One call of next() on the generator: the position, index and result.
XrangeResume(pc, index, s, e, st) ==
    IF pc = "done"
    THEN [pc |-> "done", index |-> index, result |-> Result(Undefined, TRUE)]
    ELSE LET i == IF pc = "start" THEN s ELSE index + st IN
         IF Lt(i, e)
         THEN [pc |-> "yield", index |-> i, result |-> Result(i, FALSE)]
         ELSE [pc |-> "done", index |-> i, result |-> Result(Undefined, TRUE)]

\* xrange(start, end, step): creates the generator object; no line of the
\* body runs before the first next().
XrangeCall ==
    /\ xPc = "call"
    /\ xPc' = "start"
    /\ UNCHANGED <<start, end, step, rPc, rIndex, rHist, xIndex, xHist>>
    /\ UNCHANGED notRangeVars

XrangeNext ==
    /\ xPc \in {"start", "yield", "done"}
    /\ Len(xHist) < MaxResumes
    /\ LET s == XrangeResume(xPc, xIndex, start, end, step) IN
        /\ xPc' = s.pc
        /\ xIndex' = s.index
        /\ xHist' = Append(xHist, s.result)
    /\ UNCHANGED <<start, end, step, rPc, rIndex, rHist>>
    /\ UNCHANGED notRangeVars

----------------------------------------------------------------------------
(* fibonacci: the generator of lines 80-91.  fPc is "start" before the     *)
(* first next() and "yield" while suspended at line 84.                    *)

Signals == {Undefined, "true", "zero"}

\* Variant: the reset of lines 86-89 applied before the advance of line 85.
FibResumeResetFirst(pc, cur, nxt, signal) ==
    IF pc = "start"
    THEN [pc |-> "yield", current |-> 0, next |-> 1, result |-> Result(0, FALSE)]
    ELSE LET c0 == IF Truthy(signal) THEN 0 ELSE cur
             n0 == IF Truthy(signal) THEN 1 ELSE nxt
         IN [pc |-> "yield", current |-> n0, next |-> n0 + c0,
             result |-> Result(n0, FALSE)]

\* Variant: a reset test that asks whether a signal was passed at all.
FibResumeResetOnAny(pc, cur, nxt, signal) ==
    IF pc = "start"
    THEN [pc |-> "yield", current |-> 0, next |-> 1, result |-> Result(0, FALSE)]
    ELSE LET c == IF signal # Undefined THEN 0 ELSE nxt
             n == IF signal # Undefined THEN 1 ELSE nxt + cur
         IN [pc |-> "yield", current |-> c, next |-> n, result |-> Result(c, FALSE)]

\* Variant: a reset that forgets line 88 (next = 1).
FibResumeHalfReset(pc, cur, nxt, signal) ==
    IF pc = "start"
    THEN [pc |-> "yield", current |-> 0, next |-> 1, result |-> Result(0, FALSE)]
    ELSE LET c == IF Truthy(signal) THEN 0 ELSE nxt
         IN [pc |-> "yield", current |-> c, next |-> nxt + cur,
             result |-> Result(c, FALSE)]

\* One call of next(signal): the position, the cursor and the result.  The
\* argument of the first next() is discarded: no yield is waiting for it.
FibResume(pc, cur, nxt, signal) ==
    IF pc = "start"
    THEN [pc |-> "yield", current |-> 0, next |-> 1, result |-> Result(0, FALSE)]
    ELSE LET c == IF Truthy(signal) THEN 0 ELSE nxt
             n == IF Truthy(signal) THEN 1 ELSE nxt + cur
         IN [pc |-> "yield", current |-> c, next |-> n, result |-> Result(c, FALSE)]

FibNext(signal) ==
    /\ Len(fHist) < MaxFibResumes
    /\ LET s == FibResume(fPc, current, next, signal) IN
        /\ fPc' = s.pc
        /\ current' = s.current
        /\ next' = s.next
        /\ fHist' = Append(fHist, [signal |-> signal, value |-> s.result.value,
                                   done |-> s.result.done])
    /\ UNCHANGED notFibVars

----------------------------------------------------------------------------
(* ip: lines 116-141.  The bodies of parseApiGatewayHeader and             *)
(* parseCloudflareHeader are elided in the source ("do some heavy          *)
(* computation"); apiParsed and cfParsed are the strings they return for   *)
(* the headers of this request, the stub's "parsed" or the empty string.   *)
(* gPc is the position of ipCandidates: 0 before the first next(), 1, 2, 3 *)
(* suspended at the yield of line 121, 122, 123, and 4 when finished.      *)

Headers == {Undefined, "header"}
RequestIps == {Undefined, "", "10.0.0.1"}
ParseResults == {"parsed", ""}

parseApiGatewayHeader(header, secret) == apiParsed
parseCloudflareHeader(header) == cfParsed

\* Variant: a generator body that computes every candidate up front.
ipCandidatesEager(pc) ==
    CASE pc = 0 -> [pc |-> 1, done |-> FALSE, api |-> 1, cf |-> 1,
                    value |-> parseApiGatewayHeader(apiGatewayHeader, "secret")]
      [] pc = 1 -> [pc |-> 2, done |-> FALSE, api |-> 0, cf |-> 0,
                    value |-> parseCloudflareHeader(cloudflareHeader)]
      [] pc = 2 -> [pc |-> 3, done |-> FALSE, api |-> 0, cf |-> 0,
                    value |-> requestIp]
      [] OTHER  -> [pc |-> 4, done |-> TRUE, api |-> 0, cf |-> 0,
                    value |-> Undefined]

\* One next() on ipCandidates: the position, the result and which parse
\* function ran.
ipCandidates(pc) ==
    CASE pc = 0 -> [pc |-> 1, done |-> FALSE, api |-> 1, cf |-> 0,
                    value |-> parseApiGatewayHeader(apiGatewayHeader, "secret")]
      [] pc = 1 -> [pc |-> 2, done |-> FALSE, api |-> 0, cf |-> 1,
                    value |-> parseCloudflareHeader(cloudflareHeader)]
      [] pc = 2 -> [pc |-> 3, done |-> FALSE, api |-> 0, cf |-> 0,
                    value |-> requestIp]
      [] OTHER  -> [pc |-> 4, done |-> TRUE, api |-> 0, cf |-> 0,
                    value |-> Undefined]

\* Variant: the test of line 127 inverted.
AcceptsFalsy(c) == ~TruthyString(c)

\* if (candidate), line 127.
Accepts(c) == TruthyString(c)

\* Line 126: the for-of takes the next candidate, or leaves the loop.
IpResume ==
    /\ ipPc = "loop"
    /\ LET r == ipCandidates(gPc) IN
        /\ gPc' = r.pc
        /\ apiCalls' = apiCalls + r.api
        /\ cfCalls' = cfCalls + r.cf
        /\ IF r.done
           THEN /\ ipPc' = "log"
                /\ UNCHANGED <<candidate, produced>>
           ELSE /\ ipPc' = "test"
                /\ candidate' = r.value
                /\ produced' = Append(produced, r.value)
    /\ UNCHANGED <<ipInputs, logged, ipResult>>
    /\ UNCHANGED notIpVars

\* Lines 127-129: return the candidate if it is truthy (leaving the for-of
\* closes the generator), else go round the loop.
IpTest ==
    /\ ipPc = "test"
    /\ IF Accepts(candidate)
       THEN /\ ipPc' = "returned"
            /\ ipResult' = candidate
            /\ gPc' = 4
       ELSE /\ ipPc' = "loop"
            /\ UNCHANGED <<ipResult, gPc>>
    /\ UNCHANGED <<ipInputs, candidate, produced, apiCalls, cfCalls, logged>>
    /\ UNCHANGED notIpVars

\* Lines 132-139: reply.log.error(record, message).
IpLog ==
    /\ ipPc = "log"
    /\ logged' = Append(logged, [apiGwHeader |-> apiGatewayHeader,
                                 cfHeader |-> cloudflareHeader,
                                 requestIp |-> requestIp])
    /\ ipPc' = "throw"
    /\ UNCHANGED <<ipInputs, gPc, candidate, produced, apiCalls, cfCalls, ipResult>>
    /\ UNCHANGED notIpVars

\* Line 140: throw new Error(...).
IpThrow ==
    /\ ipPc = "throw"
    /\ ipPc' = "threw"
    /\ UNCHANGED <<ipInputs, gPc, candidate, produced, apiCalls, cfCalls,
                   logged, ipResult>>
    /\ UNCHANGED notIpVars

----------------------------------------------------------------------------
(* The consumers of the iteration protocol: useRange (lines 27-34), the    *)
(* for-of loop over `iterable` (lines 44-46) and the spread of `iterable`  *)
(* (line 48).  Every call of range creates an iterator with its own        *)
(* closure; heap[id] is the index of iterator id.  uResult, fFinal and     *)
(* sFinal are empty until the result they hold exists.  The source's       *)
(* arguments are (IterableStart, IterableEnd) and the default step; the    *)
(* model also                                                              *)
(* runs the consumers on other arguments, the default end = Infinity       *)
(* among them.                                                             *)

IterableStart == 0
IterableEnd == 10

IterStarts == IterableStart..MaxIterStart
IterEnds == {Num(MaxIterStart), Num(IterableEnd), Infinity}
IterSteps == 0..MaxIterStep

\* Variant: an iterable that hands out one cached iterator.
SymbolIteratorShared(h) ==
    IF h = <<>> THEN [heap |-> Append(h, iStart), id |-> 1]
    ELSE [heap |-> h, id |-> 1]

\* [Symbol.iterator]() of lines 38-40, and the range(0, 10) of line 28: a
\* new iterator whose index is start.
SymbolIterator(h) == [heap |-> Append(h, iStart), id |-> Len(h) + 1]

\* next() on iterator id.
HeapNext(h, id) ==
    LET s == RangeNextStep(h[id], iEnd, iStep) IN
    [heap |-> [h EXCEPT ![id] = s.index], result |-> s.result]

\* Variant: a consumer that takes the value of every result, done or not.
DeliverAlways(out, r) == Append(out, r.value)

\* What for-of and spread do with a result: the value of a done=false
\* result goes to the loop body (or the array), a done=true result ends the
\* iteration and its value is dropped.
Deliver(out, r) == IF r.done THEN out ELSE Append(out, r.value)

\* Lines 28-29: const iterator = range(0, 10); let result = iterator.next().
UseRangeStart ==
    /\ uPc = "start"
    /\ LET it == SymbolIterator(heap)
           n == HeapNext(it.heap, it.id)
       IN /\ uIt' = it.id
          /\ heap' = n.heap
          /\ uResult' = <<n.result>>
    /\ uCalls' = 1
    /\ uPc' = "loop"
    /\ UNCHANGED <<iterArgs, uOut, forOfVars, spreadVars>>
    /\ UNCHANGED notIterVars

\* Lines 30-33: one turn of the while loop, or its exit.
UseRangeLoop ==
    /\ uPc = "loop"
    /\ IF ~uResult[1].done
       THEN /\ uCalls < MaxIterResumes
            /\ uOut' = Append(uOut, uResult[1].value)
            /\ LET n == HeapNext(heap, uIt) IN
                /\ heap' = n.heap
                /\ uResult' = <<n.result>>
            /\ uCalls' = uCalls + 1
            /\ UNCHANGED uPc
       ELSE /\ uPc' = "end"
            /\ UNCHANGED <<heap, uResult, uOut, uCalls>>
    /\ UNCHANGED <<iterArgs, uIt, forOfVars, spreadVars>>
    /\ UNCHANGED notIterVars

\* Line 44: for-of asks the iterable for an iterator.
ForOfStart ==
    /\ fPos = "start"
    /\ LET it == SymbolIterator(heap) IN
        /\ fIt' = it.id
        /\ heap' = it.heap
    /\ fPos' = "loop"
    /\ UNCHANGED <<iterArgs, fOut, fFinal, fCalls, useVars, spreadVars>>
    /\ UNCHANGED notIterVars

\* Lines 44-46: one next(); the body logs the value, or the loop ends.
ForOfStep ==
    /\ fPos = "loop"
    /\ fCalls < MaxIterResumes
    /\ LET n == HeapNext(heap, fIt) IN
        /\ heap' = n.heap
        /\ fOut' = Deliver(fOut, n.result)
        /\ fPos' = IF n.result.done THEN "end" ELSE "loop"
        /\ fFinal' = IF n.result.done THEN <<n.result.value>> ELSE fFinal
    /\ fCalls' = fCalls + 1
    /\ UNCHANGED <<iterArgs, fIt, useVars, spreadVars>>
    /\ UNCHANGED notIterVars

\* Line 48: the spread asks the iterable for an iterator.
SpreadStart ==
    /\ sPc = "start"
    /\ LET it == SymbolIterator(heap) IN
        /\ sIt' = it.id
        /\ heap' = it.heap
    /\ sPc' = "loop"
    /\ UNCHANGED <<iterArgs, numbers, sFinal, sCalls, sMore, useVars, forOfVars>>
    /\ UNCHANGED notIterVars

\* Line 48: one next(); the value is appended, or the array is complete.
SpreadStep ==
    /\ sPc = "loop"
    /\ sCalls < MaxIterResumes
    /\ LET n == HeapNext(heap, sIt) IN
        /\ heap' = n.heap
        /\ numbers' = Deliver(numbers, n.result)
        /\ sPc' = IF n.result.done THEN "end" ELSE "loop"
        /\ sFinal' = IF n.result.done THEN <<n.result.value>> ELSE sFinal
    /\ sCalls' = sCalls + 1
    /\ UNCHANGED <<iterArgs, sIt, sMore, useVars, forOfVars>>
    /\ UNCHANGED notIterVars

\* Line 48, past the resumes the model records: on a sequence that never
\* exhausts (end = Infinity, or a step that does not advance) the spread
\* takes one more value.  The model no longer stores the value or the
\* index; sMore flips to mark the step.
SpreadStepBeyond ==
    /\ sPc = "loop"
    /\ sCalls = MaxIterResumes
    /\ iEnd.inf \/ iStep = 0
    /\ ~HeapNext(heap, sIt).result.done
    /\ sMore' = ~sMore
    /\ UNCHANGED <<iterArgs, heap, sPc, sIt, numbers, sFinal, sCalls, useVars,
                   forOfVars>>
    /\ UNCHANGED notIterVars

----------------------------------------------------------------------------
(* retryIndefinitely: lines 70-75.  tPc is the position of the async       *)
(* function: "resume" (the for-of is about to call next(), line 71),       *)
(* "body" (nthTry is bound, line 72), "await" (suspended at line 73) and   *)
(* "rejected" (the function's promise is rejected).  pending counts the    *)
(* calls of longRunningOperation whose promise is not settled; settled is  *)
(* the outcome of a settled promise the function has not yet resumed on.   *)
(* tLog records the resumes, the calls and the completions in order.       *)

RetryStart == 1

Errors == {"E1", "E2", "E3"}
Outcomes == {"fulfilled"} \cup Errors

Event(kind, n, outcome) == [kind |-> kind, n |-> n, outcome |-> outcome]

\* Variant: the call of line 73 without its await.
AfterCallNoAwait == "resume"

\* Where the function is after calling longRunningOperation: suspended at
\* the await of line 73.
AfterCall == "await"

\* Variant: a loop that catches the rejection and goes on.
OnSettledCaught(outcome) == "resume"

\* Variant: a loop that ends after the first success.
OnSettledStops(outcome) == IF outcome = "fulfilled" THEN "returned" ELSE "rejected"

\* Where the function goes when the awaited promise has settled: round the
\* loop when it is fulfilled; a rejection is thrown at line 73, nothing
\* catches it, and the function's promise is rejected.
OnSettled(outcome) == IF outcome = "fulfilled" THEN "resume" ELSE "rejected"

\* Line 71: the for-of resumes xrange(1, Infinity).
RetryResume ==
    /\ tPc = "resume"
    /\ tries < MaxTries
    /\ LET r == XrangeResume(tGen, tIndex, RetryStart, Infinity, 1) IN
        /\ tGen' = r.pc
        /\ tIndex' = r.index
        /\ IF r.result.done
           THEN /\ tPc' = "returned"
                /\ UNCHANGED <<nthTry, tLog>>
           ELSE /\ tPc' = "body"
                /\ nthTry' = r.result.value
                /\ tLog' = Append(tLog, Event("resume", r.result.value, Undefined))
    /\ UNCHANGED <<tries, pending, settled, tReason>>
    /\ UNCHANGED notRetryVars

\* Lines 72-73: log the try, call longRunningOperation and await its promise.
RetryAttempt ==
    /\ tPc = "body"
    /\ tries' = tries + 1
    /\ pending' = pending + 1
    /\ tLog' = Append(tLog, Event("call", tries + 1, Undefined))
    /\ tPc' = AfterCall
    /\ UNCHANGED <<tGen, tIndex, nthTry, settled, tReason>>
    /\ UNCHANGED notRetryVars

\* The promise of the attempt in progress settles: fulfilled, or rejected
\* with an error.
OpSettle(outcome) ==
    /\ pending > 0
    /\ pending' = pending - 1
    /\ settled' = outcome
    /\ tLog' = Append(tLog, Event("settle", tries, outcome))
    /\ UNCHANGED <<tPc, tGen, tIndex, nthTry, tries, tReason>>
    /\ UNCHANGED notRetryVars

OpCompletes == \E outcome \in Outcomes : OpSettle(outcome)

\* The function resumes from the await of line 73.  Leaving the for-of by a
\* throw closes the generator.
RetryContinue ==
    /\ tPc = "await"
    /\ settled # "none"
    /\ tPc' = OnSettled(settled)
    /\ tReason' = IF tPc' = "rejected" THEN settled ELSE tReason
    /\ tGen' = IF tPc' = "resume" THEN tGen ELSE "done"
    /\ settled' = "none"
    /\ UNCHANGED <<tIndex, nthTry, tries, pending, tLog>>
    /\ UNCHANGED notRetryVars

----------------------------------------------------------------------------
(* Initial states and specifications.                                      *)

RangeIdle ==
    /\ rPc = "call" /\ rIndex = 0 /\ rHist = <<>>
    /\ xPc = "call" /\ xIndex = 0 /\ xHist = <<>>

FibIdle ==
    /\ fPc = "start" /\ current = 0 /\ next = 0 /\ fHist = <<>>

IpIdle ==
    /\ ipPc = "loop" /\ gPc = 0 /\ candidate = Undefined /\ produced = <<>>
    /\ apiCalls = 0 /\ cfCalls = 0 /\ logged = <<>> /\ ipResult = Undefined

IpNoRequest ==
    /\ apiGatewayHeader = Undefined /\ cloudflareHeader = Undefined
    /\ requestIp = Undefined /\ apiParsed = "parsed" /\ cfParsed = "parsed"
    /\ IpIdle

RetryIdle ==
    /\ tPc = "resume" /\ tGen = "start" /\ tIndex = 0 /\ nthTry = 0
    /\ tries = 0 /\ pending = 0 /\ settled = "none" /\ tReason = Undefined
    /\ tLog = <<>>

IterIdle ==
    /\ heap = <<>>
    /\ uPc = "start" /\ uIt = 0 /\ uResult = <<>>
    /\ uOut = <<>> /\ uCalls = 0
    /\ fPos = "start" /\ fIt = 0 /\ fOut = <<>> /\ fFinal = <<>> /\ fCalls = 0
    /\ sPc = "start" /\ sIt = 0 /\ numbers = <<>> /\ sFinal = <<>>
    /\ sCalls = 0 /\ sMore = FALSE

IterNoArgs ==
    /\ iStart = 0 /\ iEnd = Infinity /\ iStep = 1
    /\ IterIdle
    /\ RetryIdle

\* The ranged sequences: any arguments, both implementations side by side.
Init ==
    /\ start \in Starts /\ end \in Ends /\ step \in Steps
    /\ RangeIdle
    /\ FibIdle
    /\ IpNoRequest
    /\ IterNoArgs

Next == RangeCall \/ RangeNext \/ XrangeCall \/ XrangeNext

Spec == Init /\ [][Next]_vars

\* The fibonacci generator, resumed with any signals.
RangeNoArgs ==
    /\ start = 0 /\ end = Infinity /\ step = 1
    /\ RangeIdle

InitFib ==
    /\ RangeNoArgs
    /\ FibIdle
    /\ IpNoRequest
    /\ IterNoArgs

NextFib == \E signal \in Signals : FibNext(signal)

SpecFib == InitFib /\ [][NextFib]_vars

\* One call of ip(), for any request and any outcome of the two parsers.
InitIp ==
    /\ RangeNoArgs
    /\ FibIdle
    /\ apiGatewayHeader \in Headers /\ cloudflareHeader \in Headers
    /\ requestIp \in RequestIps
    /\ apiParsed \in ParseResults /\ cfParsed \in ParseResults
    /\ IpIdle
    /\ IterNoArgs

NextIp == IpResume \/ IpTest \/ IpLog \/ IpThrow

SpecIp == InitIp /\ [][NextIp]_vars

\* The three consumers, each on its own iterator, interleaved in any order.
InitIter ==
    /\ RangeNoArgs
    /\ FibIdle
    /\ IpNoRequest
    /\ iStart \in IterStarts /\ iEnd \in IterEnds /\ iStep \in IterSteps
    /\ IterIdle
    /\ RetryIdle

NextIter ==
    \/ UseRangeStart \/ UseRangeLoop
    \/ ForOfStart \/ ForOfStep
    \/ SpreadStart \/ SpreadStep \/ SpreadStepBeyond

SpecIter == InitIter /\ [][NextIter]_vars

\* The same, with the spread running to completion once it has begun: a
\* synchronous loop is not suspended between two of its steps for ever.
SpecIterFair ==
    /\ InitIter /\ [][NextIter]_vars
    /\ WF_vars(SpreadStart) /\ WF_vars(SpreadStep) /\ WF_vars(SpreadStepBeyond)

\* One call of retryIndefinitely, with any outcome of every attempt.
InitRetry ==
    /\ RangeNoArgs
    /\ FibIdle
    /\ IpNoRequest
    /\ IterNoArgs

NextRetry == RetryResume \/ RetryAttempt \/ OpCompletes \/ RetryContinue

SpecRetry == InitRetry /\ [][NextRetry]_vars

\* The same, with the event loop running every continuation that is ready
\* and every attempt completing.
SpecRetryFair ==
    /\ InitRetry /\ [][NextRetry]_vars
    /\ WF_vars(RetryResume) /\ WF_vars(RetryAttempt)
    /\ WF_vars(OpCompletes) /\ WF_vars(RetryContinue)

----------------------------------------------------------------------------
(* Reference definitions used by the properties.                           *)

\* ceil((e - s) / st) when that is positive, else 0 (finite e, st > 0).
Count(s, e, st) == IF e.n > s THEN (e.n - s + st - 1) \div st ELSE 0

\* start, start+step, ... : the Count values of the arithmetic progression.
Progression(s, e, st) == [i \in 1..Count(s, e, st) |-> s + (i - 1) * st]

\* What a consumer that stops at the first done=true result has received.
RECURSIVE Collect(_)
Collect(h) ==
    IF h = <<>> \/ Head(h).done THEN <<>>
    ELSE <<Head(h).value>> \o Collect(Tail(h))

Exhausted(h) == \E k \in 1..Len(h) : h[k].done

FiniteAscending == ~end.inf /\ step > 0

RECURSIVE Fib(_)
Fib(k) == IF k <= 1 THEN k ELSE Fib(k - 1) + Fib(k - 2)

----------------------------------------------------------------------------
(* Properties of the ranged sequences (specification Spec).                *)

C1Collected(h) ==
    LET c == Collect(h) IN
    /\ Len(c) <= Count(start, end, step)
    /\ \A i \in 1..Len(c) : c[i] = start + (i - 1) * step /\ c[i] < end.n
    /\ \A i \in 1..(Len(c) - 1) : c[i] < c[i + 1]
    /\ Exhausted(h) => c = Progression(start, end, step)
    /\ (start >= end.n /\ Len(h) >= 1) => h[1].done

\* C1: for integer start, end and step > 0, fully consuming range or xrange
\* gives exactly start, start+step, ... below end, ascending, that is
\* ceil((end-start)/step) values when positive; with start >= end the first
\* resume is already done.
C1_CollectIsProgression ==
    FiniteAscending => C1Collected(rHist) /\ C1Collected(xHist)

C1_Witness ==
    /\ FiniteAscending /\ step >= 2
    /\ (end.n - start) % step # 0
    /\ Count(start, end, step) >= 3
    /\ Exhausted(rHist) /\ Exhausted(xHist)

C2Terminal(h) ==
    \A k \in 1..Len(h) : h[k].done = (k > Count(start, end, step))

\* C2: a finite ranged sequence with step > 0 that produces N values returns
\* done=false on the first N resumes and done=true on every later resume:
\* an exhausted sequence stays exhausted and a resume of it is a result, not
\* an error.
C2_TerminalExhaustion ==
    FiniteAscending => C2Terminal(rHist) /\ C2Terminal(xHist)

C2_Witness ==
    /\ FiniteAscending
    /\ Count(start, end, step) >= 2
    /\ Len(rHist) >= Count(start, end, step) + 2
    /\ Len(xHist) >= Count(start, end, step) + 2

\* C5 as stated: with step = 0 the construction is rejected, so no iterator
\* exists and no resume of it ever happens.
C5_StepZeroRejected ==
    step = 0 => /\ rPc = "call" /\ rHist = <<>>
                /\ xPc = "call" /\ xHist = <<>>

C5Constant(h) ==
    \A k \in 1..Len(h) :
        /\ h[k].done = ~Lt(start, end)
        /\ ~h[k].done => h[k].value = start

\* C5 (amended): step = 0 is accepted; the sequence returned can be resumed,
\* and every resume returns start with done=false when start < end (the
\* sequence never exhausts) and done=true when start >= end.
C5_StepZeroAccepted ==
    step = 0 => C5Constant(rHist) /\ C5Constant(xHist)

C5_Witness ==
    /\ step = 0 /\ Lt(start, end) /\ ~end.inf
    /\ rPc = "iterator" /\ Len(rHist) >= 3
    /\ xPc = "yield" /\ Len(xHist) >= 3

----------------------------------------------------------------------------
(* Properties of the fibonacci generator (specification SpecFib).          *)

\* The resumes of lines 94-104: seven without an argument, one with true,
\* three without an argument, and the values the comments give.
TraceSignals ==
    <<Undefined, Undefined, Undefined, Undefined, Undefined, Undefined,
      Undefined, "true", Undefined, Undefined, Undefined>>
TraceValues == <<0, 1, 1, 2, 3, 5, 8, 0, 1, 1, 2>>

FollowsTrace(k) ==
    /\ k <= Len(TraceSignals)
    /\ \A j \in 1..k : fHist[j].signal = TraceSignals[j]

\* C3: the first 7 resumes without a signal yield 0,1,1,2,3,5,8; an 8th with
\* the reset signal yields 0 and the next three without a signal 1,1,2.
C3_FibonacciTrace ==
    \A k \in 1..Len(fHist) :
        FollowsTrace(k) => fHist[k].value = TraceValues[k] /\ ~fHist[k].done

C3_Witness ==
    /\ Len(fHist) = Len(TraceSignals)
    /\ FollowsTrace(Len(fHist))

NoResetIn(a, b) == \A i \in a..b : ~Truthy(fHist[i].signal)

\* C4: a resume with a truthy signal, the very first one included, returns 0
\* with done=false and leaves the cursor at (0, 1); the resumes after it
\* without a signal return 1, 1, 2, 3, ... as those of a new sequence do
\* after its first value.
C4_ResetRestoresCursor ==
    /\ (Len(fHist) >= 1 /\ Truthy(fHist[Len(fHist)].signal))
            => current = 0 /\ next = 1
    /\ \A k \in 1..Len(fHist) :
        /\ Truthy(fHist[k].signal) =>
            /\ fHist[k].value = 0 /\ ~fHist[k].done
            /\ \A j \in (k + 1)..Len(fHist) :
                NoResetIn(k + 1, j) => fHist[j].value = Fib(j - k)
        /\ NoResetIn(2, k) => fHist[k].value = Fib(k - 1)

C4_Witness ==
    /\ Len(fHist) >= 9
    /\ Truthy(fHist[1].signal) /\ NoResetIn(2, 5)
    /\ Truthy(fHist[6].signal) /\ NoResetIn(7, 9)

----------------------------------------------------------------------------
(* Properties of ip() (specification SpecIp).                              *)

Candidates == <<apiParsed, cfParsed, requestIp>>

IsPrefix(a, b) == Len(a) <= Len(b) /\ \A i \in 1..Len(a) : a[i] = b[i]

\* C6: the candidates are computed one per resume in the order API-gateway
\* parse, Cloudflare parse, request IP; each parse function runs at most
\* once, and nothing is computed after a truthy candidate.
C6_LazyCandidates ==
    /\ IsPrefix(produced, Candidates)
    /\ apiCalls = (IF Len(produced) >= 1 THEN 1 ELSE 0)
    /\ cfCalls = (IF Len(produced) >= 2 THEN 1 ELSE 0)
    /\ \A i \in 1..(Len(produced) - 1) : ~TruthyString(produced[i])
    /\ TruthyString(apiParsed) => cfCalls = 0 /\ Len(produced) <= 1
    /\ TruthyString(cfParsed) => Len(produced) <= 2

C6_Witness ==
    /\ ipPc = "returned"
    /\ ~TruthyString(apiParsed) /\ TruthyString(cfParsed)
    /\ TruthyString(requestIp)
    /\ apiCalls = 1 /\ cfCalls = 1 /\ Len(produced) = 2

AllFalsy == \A i \in 1..3 : ~TruthyString(Candidates[i])

FirstTruthy ==
    Candidates[CHOOSE i \in 1..3 :
        /\ TruthyString(Candidates[i])
        /\ \A j \in 1..(i - 1) : ~TruthyString(Candidates[j])]

\* C7: ip() returns the first truthy candidate and logs nothing then; it
\* throws exactly when all three candidates are falsy, after logging the
\* error record exactly once.
C7_ReturnOrLoggedThrow ==
    /\ ipPc = "returned" =>
        /\ ~AllFalsy /\ ipResult = FirstTruthy
        /\ logged = <<>>
    /\ ipPc \in {"log", "throw", "threw"} => AllFalsy
    /\ ipPc \in {"throw", "threw"} =>
        logged = <<[apiGwHeader |-> apiGatewayHeader,
                    cfHeader |-> cloudflareHeader,
                    requestIp |-> requestIp]>>
    /\ ipPc \notin {"throw", "threw"} => logged = <<>>

C7_Witness ==
    /\ ipPc = "threw" /\ Len(logged) = 1
    /\ requestIp = "" /\ apiGatewayHeader = "header"

----------------------------------------------------------------------------
(* Properties of the consumers (specifications SpecIter, SpecIterFair).    *)

\* C8: the for-of loop and the spread deliver the same values in the same
\* order as the useRange loop of direct next() calls, and none of them
\* delivers the value of the done=true result.
C8_AdapterEquivalence ==
    /\ IsPrefix(uOut, fOut) \/ IsPrefix(fOut, uOut)
    /\ IsPrefix(uOut, numbers) \/ IsPrefix(numbers, uOut)
    /\ (uPc = "end" /\ fPos = "end") => uOut = fOut
    /\ (uPc = "end" /\ sPc = "end") => uOut = numbers
    /\ Len(fOut) = fCalls - (IF fPos = "end" THEN 1 ELSE 0)
    /\ Len(numbers) = sCalls - (IF sPc = "end" THEN 1 ELSE 0)
    /\ uPc # "start" => Len(uOut) = uCalls - 1
    /\ uPc = "end" =>
        uResult[1].done /\ \A i \in 1..Len(uOut) : uOut[i] # uResult[1].value
    /\ fPos = "end" => \A i \in 1..Len(fOut) : fOut[i] # fFinal[1]
    /\ sPc = "end" => \A i \in 1..Len(numbers) : numbers[i] # sFinal[1]

C8_Witness ==
    /\ uPc = "end" /\ fPos = "end" /\ sPc = "end"
    /\ Len(uOut) >= 5 /\ iStep = 2

SourceArgs == iStart = IterableStart /\ iEnd = Num(IterableEnd) /\ iStep = 1

ZeroToNine == [i \in 1..IterableEnd |-> i - 1]

\* C9: every iteration of `iterable` has its own range(0, 10) cursor: the
\* for-of loop and the spread each produce 0,1,...,9, and the resumes of one
\* iterator never move another, in any interleaving.
C9_FreshCursorPerIteration ==
    /\ (fIt # 0 /\ sIt # 0) => fIt # sIt
    /\ (fIt # 0 /\ uIt # 0) => fIt # uIt
    /\ (sIt # 0 /\ uIt # 0) => sIt # uIt
    /\ fIt # 0 => heap[fIt] = iStart + Len(fOut) * iStep
    /\ sIt # 0 => heap[sIt] = iStart + Len(numbers) * iStep
    /\ SourceArgs =>
        /\ IsPrefix(fOut, ZeroToNine) /\ IsPrefix(numbers, ZeroToNine)
        /\ fPos = "end" => fOut = ZeroToNine
        /\ sPc = "end" => numbers = ZeroToNine

C9_Witness ==
    /\ SourceArgs
    /\ fPos = "end" /\ sPc = "loop" /\ Len(numbers) = 4 /\ sIt < fIt
    /\ uPc = "loop" /\ Len(uOut) = 7

Unbounded == iEnd.inf /\ iStep > 0

\* C10 as stated: the unlimited materialization of an unbounded ranged
\* sequence ends in a NonTerminatingSequenceError.
C10_FailsWithError ==
    (Unbounded /\ sPc = "loop") ~> (sPc = "NonTerminatingSequenceError")

\* C10 (amended): the unlimited materialization of an unbounded ranged
\* sequence never completes and raises nothing: every resume returns the next
\* value of the progression with done=false, and the spread goes on
\* collecting.
C10_NeverCompletes ==
    Unbounded =>
        /\ sPc \in {"start", "loop"}
        /\ sFinal = <<>>
        /\ numbers = [i \in 1..sCalls |-> iStart + (i - 1) * iStep]

C10_Witness ==
    /\ Unbounded /\ iStep = 2
    /\ sPc = "loop" /\ Len(numbers) >= IterableEnd

----------------------------------------------------------------------------
(* Properties of retryIndefinitely (specifications SpecRetry and           *)
(* SpecRetryFair).                                                         *)

EventKinds == <<"resume", "call", "settle">>

\* C11: resumes and attempts alternate strictly: the n-th resume yields n,
\* exactly one call of longRunningOperation follows each resume, and the
\* next resume waits for the completion of that call, so that at most one
\* attempt is in progress at any time.
C11_StrictAlternation ==
    /\ pending <= 1
    /\ \A k \in 1..Len(tLog) :
        /\ tLog[k].kind = EventKinds[((k - 1) % 3) + 1]
        /\ tLog[k].n = ((k - 1) \div 3) + 1
    /\ tPc = "resume" => pending = 0 /\ Len(tLog) % 3 = 0
    /\ pending = 1 => tPc = "await" /\ Len(tLog) % 3 = 2

C11_Witness ==
    /\ tPc = "await" /\ pending = 1
    /\ tries = 4 /\ nthTry = 4

\* C12 as stated: whenever the function resumes from its await, after a
\* success or after a rejection, it goes round the loop for another attempt.
C12_RetriesAfterAnyCompletion ==
    [][(tPc = "await" /\ tPc' # "await") => tPc' = "resume"]_vars

\* C12 (amended): retryIndefinitely keeps trying for as long as the attempts
\* succeed: after a fulfilled attempt it resumes the sequence and starts
\* another one, so that, every attempt completing, an n-th attempt is made
\* for every n unless an earlier one was rejected; a rejected attempt ends
\* the loop and no further attempt follows.
C12_RetriesWhileSucceeding ==
    /\ [][(tPc = "await" /\ tPc' # "await") =>
            /\ settled = "fulfilled" => tPc' = "resume"
            /\ settled # "fulfilled" => tPc' = "rejected"]_vars
    /\ [][tPc = "rejected" => (tPc' = "rejected" /\ tries' = tries)]_vars
    /\ \A n \in 1..MaxTries : <>(tries >= n \/ tPc = "rejected")

C12_Witness ==
    /\ tPc = "rejected" /\ tries = 3
    /\ \E k \in 1..Len(tLog) :
        tLog[k].kind = "settle" /\ tLog[k].outcome = "fulfilled"

Rejections == {k \in 1..Len(tLog) :
                 tLog[k].kind = "settle" /\ tLog[k].outcome # "fulfilled"}

\* C13: a rejection of longRunningOperation is not caught or suppressed: the
\* promise of retryIndefinitely is rejected with the same reason, and the
\* loop makes no step after it; without a rejection the promise is never
\* rejected.
C13_RejectionPropagates ==
    /\ \A k \in Rejections :
        /\ k = Len(tLog)
        /\ \/ tPc = "await" /\ settled = tLog[k].outcome
           \/ tPc = "rejected" /\ tReason = tLog[k].outcome
    /\ tPc = "rejected" => Rejections # {} /\ tGen = "done" /\ pending = 0
    /\ tPc # "rejected" => tReason = Undefined

C13_Witness ==
    /\ tPc = "rejected" /\ tReason = "E2"
    /\ tries = 2

----------------------------------------------------------------------------
(* Further properties of the ranged sequences (specification Spec) and of  *)
(* the fibonacci generator (specification SpecFib).                        *)

\* C14: with the same arguments the k-th resume of range and the k-th
\* resume of xrange return the same done flag, and the same value when done
\* is false.
C14_RangeXrangeEquivalent ==
    \A k \in 1..Len(rHist) :
        k <= Len(xHist) =>
            /\ rHist[k].done = xHist[k].done
            /\ ~rHist[k].done => rHist[k].value = xHist[k].value

C14_Witness ==
    /\ ~end.inf /\ step = 2 /\ Count(start, end, step) = 3
    /\ Len(rHist) >= 5 /\ Len(xHist) >= 5

\* The last resume that carried a truthy signal and was not the first one
\* (whose argument is discarded), or 1 when there is none.
LastReset ==
    LET R == {k \in 2..Len(fHist) : Truthy(fHist[k].signal)} IN
    IF R = {} THEN 1 ELSE CHOOSE k \in R : \A j \in R : j <= k

\* C15: fibonacci never reports done; whenever it is suspended its cursor is
\* (F(k), F(k+1)) with k + 1 the number of resumes since creation or since
\* the latest truthy reset signal, that resume included; a resume with an
\* absent or falsy signal does not reset the cursor.
C15_CursorIsFibonacciPair ==
    /\ \A k \in 1..Len(fHist) : ~fHist[k].done
    /\ fPc = "yield" =>
        /\ Len(fHist) >= 1
        /\ current = Fib(Len(fHist) - LastReset)
        /\ next = Fib(Len(fHist) - LastReset + 1)
    /\ \A k \in 2..Len(fHist) :
        ~Truthy(fHist[k].signal) => fHist[k].value # 0

C15_Witness ==
    /\ fPc = "yield" /\ Len(fHist) = 10
    /\ LastReset = 4 /\ fHist[7].signal = "zero"
    /\ current = 8 /\ next = 13

FirstNotBelowEnd == start + Count(start, end, step) * step

\* C16: with step > 0, resuming an exhausted range iterator leaves its index
\* where it is: every done=true result carries the first index of the
\* progression that is not less than end (start when start >= end), and
\* every done=false value v satisfies start <= v < end.
C16_ExhaustedCursorUnchanged ==
    step > 0 =>
        /\ \A k \in 1..Len(rHist) :
            IF rHist[k].done
            THEN ~end.inf /\ rHist[k].value = FirstNotBelowEnd
            ELSE start <= rHist[k].value /\ Lt(rHist[k].value, end)
        /\ Exhausted(rHist) => rIndex = FirstNotBelowEnd
        /\ \A j, k \in 1..Len(rHist) :
            (rHist[j].done /\ rHist[k].done) => rHist[j].value = rHist[k].value

C16_Witness ==
    /\ step = 3 /\ ~end.inf /\ Count(start, end, step) = 2
    /\ (end.n - start) % step # 0
    /\ Len(rHist) >= 5

====
